---- MODULE Spec2Model ----
(***************************************************************************)
(* Model of the advent prose ventilator.                                   *)
(*                                                                         *)
(* The repository holds two versions of the library: src/unnamed/part_000  *)
(* (blank-line separated blocks, colon rule, ellipsis guard, trailing      *)
(* newline restored, blocks always joined by "\n\n") and src/advent.go     *)
(* (line-by-line classification, fenced code consumed as a unit, the       *)
(* separator chosen by ParagraphSpacing).  Definitions without a suffix    *)
(* model part_000; definitions ending in A model advent.go.                *)
(*                                                                         *)
(* A Go string is a sequence of one-character strings.  Go indices are     *)
(* 0-based: At(s, i) is s[i] and Slice(s, a, b) is s[a:b].                 *)
(***************************************************************************)
EXTENDS Integers, Sequences, FiniteSets, TLC

VARIABLES
    impl,     \* the version under test: "part_000" or "advent.go"
    input,    \* Ventilate's input string
    cfg,      \* Ventilate's Config
    pc,       \* where the caller, or the sentence scanner, stands
    out, err, \* what Ventilate (or the function called on para) returned
    out2, err2, \* what Ventilate returned when fed its own output
    para,     \* the paragraph p being scanned by ventilateBySentence
    scan,     \* the scanner's locals: i, lastBreak, result and the newlines written
    branch,   \* the branch the scanner's last iteration took
    at,       \* the cursor i at the start of that iteration
    ventilated \* what IsVentilated returned

vars == <<impl, input, cfg, pc, out, err, out2, err2, para, scan, branch, at, ventilated>>

scanVars == <<para, scan, branch, at>>

----------------------------------------------------------------------------
(* Go strings *)

At(s, i) == s[i + 1]

Slice(s, a, b) == SubSeq(s, a + 1, b)

SetMin(S) == CHOOSE x \in S : \A y \in S : x <= y

SetMax(S) == CHOOSE x \in S : \A y \in S : x >= y

\* unicode.IsSpace on the characters of the model's alphabets
IsSpace(c) == c \in {" ", "\t", "\n", "\r"}

IsUpper(c) == c \in {"A", "B", "C", "D", "E", "F", "G", "H", "I", "J", "K", "L", "M",
                     "N", "O", "P", "Q", "R", "S", "T", "U", "V", "W", "X", "Y", "Z"}

\* mutant: any letter counts as lowercase
IsLowerOrUpper(c) ==
    \/ IsUpper(c)
    \/ c \in {"a", "b", "c", "d", "e", "f", "g", "h", "i", "j", "k", "l", "m",
              "n", "o", "p", "q", "r", "s", "t", "u", "v", "w", "x", "y", "z"}

IsLower(c) == c \in {"a", "b", "c", "d", "e", "f", "g", "h", "i", "j", "k", "l", "m",
                     "n", "o", "p", "q", "r", "s", "t", "u", "v", "w", "x", "y", "z"}

IsDigit(c) == c \in {"0", "1", "2", "3", "4", "5", "6", "7", "8", "9"}

HasPrefix(s, pre) == Len(pre) <= Len(s) /\ SubSeq(s, 1, Len(pre)) = pre

HasSuffix(s, suf) == Len(suf) <= Len(s) /\ SubSeq(s, Len(s) - Len(suf) + 1, Len(s)) = suf

\* strings.Index: the first 0-based index of sub in s, or -1
Index(s, sub) ==
    LET hits == {i \in 0..(Len(s) - Len(sub)) : Slice(s, i, i + Len(sub)) = sub}
    IN IF hits = {} THEN -1 ELSE SetMin(hits)

\* strings.LastIndexAny(s, chars): the last index of a character of the set, or -1
LastIndexAny(s, chars) ==
    LET hits == {i \in 0..(Len(s) - 1) : At(s, i) \in chars}
    IN IF hits = {} THEN -1 ELSE SetMax(hits)

\* strings.TrimSpace
TrimSpace(s) ==
    LET keep == {i \in 1..Len(s) : ~IsSpace(s[i])}
    IN IF keep = {} THEN <<>> ELSE SubSeq(s, SetMin(keep), SetMax(keep))

\* strings.TrimSuffix
TrimSuffix(s, suf) == IF HasSuffix(s, suf) THEN SubSeq(s, 1, Len(s) - Len(suf)) ELSE s

RECURSIVE Split(_, _)
\* strings.Split(s, sep) for a one-character separator
Split(s, sep) ==
    LET k == Index(s, <<sep>>)
    IN IF k = -1 THEN <<s>>
       ELSE <<Slice(s, 0, k)>> \o Split(Slice(s, k + 1, Len(s)), sep)

RECURSIVE Join(_, _)
\* strings.Join
Join(parts, sep) ==
    IF parts = <<>> THEN <<>>
    ELSE IF Len(parts) = 1 THEN parts[1]
    ELSE parts[1] \o sep \o Join(Tail(parts), sep)

RECURSIVE ReplaceCRLF(_)
\* strings.ReplaceAll(s, "\r\n", "\n")
ReplaceCRLF(s) ==
    IF s = <<>> THEN <<>>
    ELSE IF HasPrefix(s, <<"\r", "\n">>) THEN <<"\n">> \o ReplaceCRLF(Slice(s, 2, Len(s)))
    ELSE <<Head(s)>> \o ReplaceCRLF(Tail(s))

RECURSIVE Fields(_)
\* strings.Fields: the maximal runs of non-space characters
Fields(s) ==
    LET ns == {i \in 0..(Len(s) - 1) : ~IsSpace(At(s, i))}
    IN IF ns = {} THEN <<>>
       ELSE LET a == SetMin(ns)
                sp == {i \in a..(Len(s) - 1) : IsSpace(At(s, i))}
                b == IF sp = {} THEN Len(s) ELSE SetMin(sp)
            IN <<Slice(s, a, b)>> \o Fields(Slice(s, b, Len(s)))

----------------------------------------------------------------------------
(* Configuration *)

\* A Config is a record [SentenceBreak, MaxLineLength, ParagraphSpacing,
\* RespectMaxLineLength, Abbreviations]; Abbreviations is [isNil, keys]: whether the
\* map is nil, and the keys it maps to true.

defaultAbbreviations ==
    { <<"M", "r", ".">>, <<"M", "r", "s", ".">>, <<"M", "s", ".">>, <<"D", "r", ".">>,
      <<"P", "r", "o", "f", ".">>, <<"e", ".", "g", ".">>, <<"i", ".", "e", ".">>,
      <<"e", "t", "c", ".">>, <<"S", "t", ".">> }

----------------------------------------------------------------------------
(* Span scanner *)

RECURSIVE checkLevel(_, _, _)
\* the loop of checkUnterminatedMarkup from rune k on; TRUE is the error
checkLevel(s, k, level) ==
    IF k >= Len(s) THEN level # 0
    ELSE IF At(s, k) = "{" THEN checkLevel(s, k + 1, level + 1)
    ELSE IF At(s, k) = "}" THEN (IF level > 0 THEN checkLevel(s, k + 1, level - 1) ELSE TRUE)
    ELSE checkLevel(s, k + 1, level)

\* mutant: only the count of braces is compared, a "}" with nothing open passes
checkUnterminatedMarkupCounts(s) ==
    Cardinality({i \in 1..Len(s) : s[i] = "{"}) # Cardinality({i \in 1..Len(s) : s[i] = "}"})

\* TRUE when checkUnterminatedMarkup returns errUnterminatedMarkup
checkUnterminatedMarkup(s) == checkLevel(s, 0, 0)

RECURSIVE markupEndFrom(_, _, _)
markupEndFrom(s, i, level) ==
    IF i >= Len(s) THEN -1
    ELSE IF At(s, i) = "{" THEN markupEndFrom(s, i + 1, level + 1)
    ELSE IF At(s, i) = "}"
         THEN (IF level = 1 THEN i ELSE markupEndFrom(s, i + 1, level - 1))
    ELSE markupEndFrom(s, i + 1, level)

\* mutant: a span left open is taken to end with the text
findMarkupEndLenient(s, start) ==
    IF markupEndFrom(s, start + 1, 1) = -1 THEN Len(s) - 1 ELSE markupEndFrom(s, start + 1, 1)

\* findMarkupEnd: the index of the brace closing the one at start, -1 for (-1, false)
findMarkupEnd(s, start) == markupEndFrom(s, start + 1, 1)

----------------------------------------------------------------------------
(* Sentence boundary scanner *)

\* mutant: no whitespace is skipped
skipSpaceNone(p, j) == j

\* for j < len(p) && unicode.IsSpace(rune(p[j])) { j++ }
skipSpace(p, j) ==
    LET stop == {k \in j..(Len(p) - 1) : ~IsSpace(At(p, k))}
    IN IF stop = {} THEN (IF j > Len(p) THEN j ELSE Len(p)) ELSE SetMin(stop)

\* strings.ContainsRune("*}_)]}\"'", c)
IsWrapper(c) == c \in {"*", "}", "_", ")", "]", "\"", "'"}

\* mutant: no closing wrapper is absorbed
skipWrappersNone(p, j) == j

\* for j < len(p) { if wrapper { j++ } else { break } }
skipWrappers(p, j) ==
    LET stop == {k \in j..(Len(p) - 1) : ~IsWrapper(At(p, k))}
    IN IF stop = {} THEN (IF j > Len(p) THEN j ELSE Len(p)) ELSE SetMin(stop)

\* mutant: the custom set is added to the built-in set
effectiveAbbreviationsMerged(c) == defaultAbbreviations \cup c.Abbreviations.keys

\* abbreviations := cfg.Abbreviations; if abbreviations == nil { defaultAbbreviations }
effectiveAbbreviations(c) ==
    IF c.Abbreviations.isNil THEN defaultAbbreviations ELSE c.Abbreviations.keys

\* word := p[wordStart : i+1], wordStart just after the last " " or "\n" before i
wordAt(p, i) == Slice(p, LastIndexAny(Slice(p, 0, i), {" ", "\n"}) + 1, i + 1)

\* the scanner's state before its loop; iterations counts the loop bodies entered
scanInit ==
    [i |-> 0, lastBreak |-> 0, result |-> <<>>, err |-> FALSE, breaks |-> {},
     iterations |-> 0]

\* which branch of the loop body runs at cursor s.i, the ellipsis guard aside
branchAt(p, abbr, s) ==
    LET i == s.i
        c == At(p, i)
    IN IF c = "{"
       THEN LET end == findMarkupEnd(p, i)
                j == skipSpace(p, end + 1)
            IN IF end = -1 THEN "unterminated"
               ELSE IF j >= Len(p) \/ IsUpper(At(p, j)) THEN "spanBreak"
               ELSE "spanSkip"
       ELSE IF c \in {".", "!", "?"}
       THEN IF wordAt(p, i) \in abbr THEN "abbreviation"
            ELSE IF /\ c \in {"!", "?"}
                    /\ i + 1 < Len(p)
                    /\ At(p, i + 1) = "\""
                    /\ LET j == skipSpace(p, i + 2)
                       IN j < Len(p) /\ IsLower(At(p, j))
                 THEN "quote"
            ELSE LET j == skipWrappers(p, i + 1)
                 IN IF j >= Len(p) \/ IsSpace(At(p, j)) THEN "boundary" ELSE "advance"
       ELSE "advance"

\* the branch taken by part_000's loop body, whose first test is the ellipsis guard
scanBranch(p, abbr, s) ==
    IF HasPrefix(Slice(p, s.i, Len(p)), <<".", ".", ".">>) THEN "ellipsis"
    ELSE branchAt(p, abbr, s)

\* one iteration of the loop: the effect of branch b on the scanner's state.
\* breaks records the indices of p before which result.WriteRune('\n') was called.
scanStep(p, s, b) ==
    LET i == s.i
    IN CASE b = "ellipsis" -> [s EXCEPT !.i = i + 3]
         [] b = "unterminated" -> [s EXCEPT !.err = TRUE, !.result = <<>>]
         [] b = "spanBreak" ->
              LET end == findMarkupEnd(p, i)
                  j == skipSpace(p, end + 1)
              IN [s EXCEPT !.result = s.result \o Slice(p, s.lastBreak, end + 1) \o <<"\n">>,
                           !.breaks = s.breaks \cup {end + 1},
                           !.lastBreak = j,
                           !.i = j]
         [] b = "spanSkip" -> [s EXCEPT !.i = findMarkupEnd(p, i) + 1]
         [] b = "boundary" ->
              LET j == skipWrappers(p, i + 1)
                  nb == skipSpace(p, j)
              IN [s EXCEPT !.result = s.result \o Slice(p, s.lastBreak, j) \o <<"\n">>,
                           !.breaks = s.breaks \cup {j},
                           !.lastBreak = nb,
                           !.i = nb]
         [] OTHER -> [s EXCEPT !.i = i + 1]

\* mutant: the text after the last boundary is not flushed
scanFinishNoFlush(p, s) ==
    IF s.err THEN [out |-> <<>>, err |-> TRUE]
    ELSE [out |-> TrimSuffix(s.result, <<"\n">>), err |-> FALSE]

\* after the loop: flush p[lastBreak:] and trim one trailing newline
scanFinish(p, s) ==
    IF s.err THEN [out |-> <<>>, err |-> TRUE]
    ELSE [out |-> TrimSuffix(IF s.lastBreak < Len(p)
                             THEN s.result \o Slice(p, s.lastBreak, Len(p))
                             ELSE s.result, <<"\n">>),
          err |-> FALSE]

RECURSIVE scanLoop(_, _, _, _)
\* the loop for i < len(p); guard says whether the body starts with the ellipsis guard
scanLoop(p, abbr, guard, s) ==
    IF s.err \/ s.i >= Len(p) THEN s
    ELSE scanLoop(p, abbr, guard,
                  scanStep(p, s, IF guard THEN scanBranch(p, abbr, s) ELSE branchAt(p, abbr, s)))

\* ventilateBySentence of part_000
ventilateBySentence(p, c) ==
    scanFinish(p, scanLoop(p, effectiveAbbreviations(c), TRUE, scanInit))

\* ventilateBySentence of advent.go: the same loop without the ellipsis guard
ventilateBySentenceA(p, c) ==
    scanFinish(p, scanLoop(p, effectiveAbbreviations(c), FALSE, scanInit))

----------------------------------------------------------------------------
(* Line-length wrapper *)

RECURSIVE wrapWordsEager(_, _, _)
\* mutant: a word that would fill the line exactly starts a new line
wrapWordsEager(words, currentLine, maxLen) ==
    IF words = <<>> THEN currentLine
    ELSE IF Len(currentLine) + 1 + Len(Head(words)) >= maxLen
         THEN currentLine \o <<"\n">> \o wrapWordsEager(Tail(words), Head(words), maxLen)
    ELSE wrapWordsEager(Tail(words), currentLine \o <<" ">> \o Head(words), maxLen)

RECURSIVE wrapWords(_, _, _)
\* the loop over words[1:]: the finished lines followed by the current line
wrapWords(words, currentLine, maxLen) ==
    IF words = <<>> THEN currentLine
    ELSE IF Len(currentLine) + 1 + Len(Head(words)) > maxLen
         THEN currentLine \o <<"\n">> \o wrapWords(Tail(words), Head(words), maxLen)
    ELSE wrapWords(Tail(words), currentLine \o <<" ">> \o Head(words), maxLen)

ventilateByLineLength(p, maxLen) ==
    LET words == Fields(p)
    IN IF words = <<>> THEN [out |-> <<>>, err |-> FALSE]
       ELSE [out |-> wrapWords(Tail(words), Head(words), maxLen), err |-> FALSE]

\* mutant: the width wrapper is tried before SentenceBreak is looked at
ventilateParagraphWrapFirst(p, c) ==
    IF c.RespectMaxLineLength /\ c.MaxLineLength > 0
    THEN ventilateByLineLength(p, c.MaxLineLength)
    ELSE IF c.SentenceBreak THEN ventilateBySentence(p, c)
    ELSE [out |-> p, err |-> FALSE]

\* ventilateParagraph of part_000
ventilateParagraph(p, c) ==
    IF c.SentenceBreak THEN ventilateBySentence(p, c)
    ELSE IF c.RespectMaxLineLength /\ c.MaxLineLength > 0
         THEN ventilateByLineLength(p, c.MaxLineLength)
    ELSE [out |-> p, err |-> FALSE]

\* ventilateParagraph of advent.go
ventilateParagraphA(p, c) ==
    IF c.SentenceBreak THEN ventilateBySentenceA(p, c)
    ELSE IF c.RespectMaxLineLength /\ c.MaxLineLength > 0
         THEN ventilateByLineLength(p, c.MaxLineLength)
    ELSE [out |-> p, err |-> FALSE]

----------------------------------------------------------------------------
(* Block classifier and orchestrator of part_000 *)

\* the backquote character (SANY's lexer accepts no backquote inside a string)
Backquote == "BQ"

fence == <<Backquote, Backquote, Backquote>>

\* the numbered-list test shared by both versions: ". " at i > 0 after digits only
isNumbered(line) ==
    LET i == Index(line, <<".", " ">>)
    IN i > 0 /\ \A k \in 0..(i - 1) : IsDigit(At(line, k))

isNonProseBlock(line) ==
    IF line = <<>> THEN FALSE
    ELSE \/ HasPrefix(line, <<"#">>)
         \/ HasPrefix(line, <<">">>)
         \/ HasPrefix(line, <<"-", " ">>)
         \/ HasPrefix(line, <<"*", " ">>)
         \/ HasPrefix(line, <<"-", "-", "-">>)
         \/ isNumbered(line)

\* the first-line test of ventilateBlock: the block is passed through verbatim
isVerbatimBlock(blockLines) ==
    LET firstLineTrimmed == TrimSpace(blockLines[1])
    IN isNonProseBlock(firstLineTrimmed) \/ HasPrefix(firstLineTrimmed, fence)

RECURSIVE joinParagraph(_)
\* the paraBuilder loop: a line ending in ":" keeps its newline, the others join by " "
joinParagraph(blockLines) ==
    IF Len(blockLines) = 1 THEN blockLines[1]
    ELSE blockLines[1]
         \o (IF HasSuffix(TrimSpace(blockLines[1]), <<":">>) THEN <<"\n">> ELSE <<" ">>)
         \o joinParagraph(Tail(blockLines))

ventilateBlock(blockLines, c) ==
    IF isVerbatimBlock(blockLines)
    THEN [out |-> Join(blockLines, <<"\n">>), err |-> FALSE]
    ELSE ventilateParagraph(joinParagraph(blockLines), c)

RECURSIVE blocksOf(_, _)
\* the line loop of Ventilate: the successive contents of blockBuffer handed to
\* processBlock (blank lines separate, an empty buffer is not processed)
blocksOf(lines, buffer) ==
    IF lines = <<>> THEN (IF buffer = <<>> THEN <<>> ELSE <<buffer>>)
    ELSE IF TrimSpace(Head(lines)) = <<>>
         THEN (IF buffer = <<>> THEN <<>> ELSE <<buffer>>) \o blocksOf(Tail(lines), <<>>)
    ELSE blocksOf(Tail(lines), Append(buffer, Head(lines)))

\* lines := strings.Split(strings.ReplaceAll(input, "\r\n", "\n"), "\n")
linesOf(in) == Split(ReplaceCRLF(in), "\n")

\* the join of the processed blocks and the restored trailing newline
assemble(in, processedBlocks) ==
    LET hasTrailingNewline == HasSuffix(in, <<"\n">>) \/ HasSuffix(in, <<"\r", "\n">>)
        output == Join(processedBlocks, <<"\n", "\n">>)
    IN IF hasTrailingNewline /\ ~HasSuffix(output, <<"\n">>) THEN output \o <<"\n">>
       ELSE output

\* processedBlocks before the join: the result of ventilateBlock on every block
processedBlocks(in, c) ==
    LET blocks == blocksOf(linesOf(in), <<>>)
    IN [k \in 1..Len(blocks) |-> ventilateBlock(blocks[k], c)]

\* mutant: the empty input is refused
VentilateRefusingEmpty(in, c) ==
    IF in = <<>> \/ checkUnterminatedMarkup(in) THEN [out |-> <<>>, err |-> TRUE]
    ELSE LET done == processedBlocks(in, c)
         IN IF \E k \in 1..Len(done) : done[k].err
            THEN [out |-> <<>>, err |-> TRUE]
            ELSE [out |-> assemble(in, [k \in 1..Len(done) |-> done[k].out]),
                  err |-> FALSE]

\* Ventilate of part_000: [out, err]
Ventilate(in, c) ==
    IF in = <<>> THEN [out |-> <<>>, err |-> FALSE]
    ELSE IF checkUnterminatedMarkup(in) THEN [out |-> <<>>, err |-> TRUE]
    ELSE LET done == processedBlocks(in, c)
         IN IF \E k \in 1..Len(done) : done[k].err
            THEN [out |-> <<>>, err |-> TRUE]
            ELSE [out |-> assemble(in, [k \in 1..Len(done) |-> done[k].out]),
                  err |-> FALSE]

----------------------------------------------------------------------------
(* Block classifier and orchestrator of advent.go *)

isNonProseBlockA(line) ==
    IF line = <<>> THEN TRUE
    ELSE \/ HasPrefix(line, <<"#">>)
         \/ HasPrefix(line, <<">">>)
         \/ HasPrefix(line, <<"-", " ">>)
         \/ HasPrefix(line, <<"*", " ">>)
         \/ isNumbered(line)

\* the index of the first line at or after i that ends a fenced block, or len(lines)
fenceEndA(lines, i) ==
    LET close == {k \in i..(Len(lines) - 1) : HasPrefix(TrimSpace(At(lines, k)), fence)}
    IN IF close = {} THEN Len(lines) ELSE SetMin(close)

\* the index of the first line at or after i that ends a paragraph, or len(lines)
paraEndA(lines, i) ==
    LET stop == {k \in i..(Len(lines) - 1) : isNonProseBlockA(TrimSpace(At(lines, k)))}
    IN IF stop = {} THEN Len(lines) ELSE SetMin(stop)

RECURSIVE segmentsA(_, _)
\* the loop for i < len(lines): what each iteration consumes, as
\* [kind, text, next]: kind is "code", "line", "blank" or "para"; text is the block
\* built (for "para", the string handed to ventilateParagraph)
segmentsA(lines, i) ==
    IF i >= Len(lines) THEN <<>>
    ELSE LET line == At(lines, i)
             trimmedLine == TrimSpace(line)
         IN IF HasPrefix(trimmedLine, fence)
            THEN LET e == fenceEndA(lines, i + 1)
                     last == IF e < Len(lines) THEN e + 1 ELSE e
                 IN <<[kind |-> "code", text |-> Join(Slice(lines, i, last), <<"\n">>)]>>
                    \o segmentsA(lines, e + 1)
            ELSE IF isNonProseBlockA(trimmedLine)
            THEN <<[kind |-> IF trimmedLine # <<>> THEN "line" ELSE "blank", text |-> line]>>
                 \o segmentsA(lines, i + 1)
            ELSE LET e == paraEndA(lines, i + 1)
                 IN <<[kind |-> "para", text |-> Join(Slice(lines, i, e), <<" ">>)]>>
                    \o segmentsA(lines, e)

\* separator := "\n"; if cfg.ParagraphSpacing == "blank-line" { separator = "\n\n" }
separatorA(c) == IF c.ParagraphSpacing = "blank-line" THEN <<"\n", "\n">> ELSE <<"\n">>

RECURSIVE dropBlank(_)
\* the blocks appended: every segment but the skipped blank lines
dropBlank(segs) ==
    IF segs = <<>> THEN <<>>
    ELSE IF Head(segs).kind = "blank" THEN dropBlank(Tail(segs))
    ELSE <<Head(segs)>> \o dropBlank(Tail(segs))

\* blocks before the join: the result of every iteration that appends a block
processedBlocksA(in, c) ==
    LET segs == dropBlank(segmentsA(Split(in, "\n"), 0))
    IN [k \in 1..Len(segs) |->
          IF segs[k].kind = "para" THEN ventilateParagraphA(segs[k].text, c)
          ELSE [out |-> segs[k].text, err |-> FALSE]]

\* Ventilate of advent.go: [out, err]
VentilateA(in, c) ==
    IF in = <<>> THEN [out |-> <<>>, err |-> FALSE]
    ELSE IF checkUnterminatedMarkup(in) THEN [out |-> <<>>, err |-> TRUE]
    ELSE LET done == processedBlocksA(in, c)
         IN IF \E k \in 1..Len(done) : done[k].err
            THEN [out |-> <<>>, err |-> TRUE]
            ELSE [out |-> Join([k \in 1..Len(done) |-> done[k].out], separatorA(c)),
                  err |-> FALSE]

----------------------------------------------------------------------------
(* The strings each version hands to ventilateParagraph *)

\* part_000: the joined text of every block that is not passed through verbatim
paragraphs(in) ==
    LET blocks == blocksOf(linesOf(in), <<>>)
    IN {joinParagraph(blocks[k]) : k \in {n \in 1..Len(blocks) : ~isVerbatimBlock(blocks[n])}}

\* advent.go: the text of every paragraph block
paragraphsA(in) ==
    LET segs == segmentsA(Split(in, "\n"), 0)
    IN {segs[k].text : k \in {n \in 1..Len(segs) : segs[n].kind = "para"}}

----------------------------------------------------------------------------
(* Ventilation detector *)

\* the test of one line against one of ". ", "! ", "? "
\* mutant: any text after the pattern counts, whitespace included
lineFailsUntrimmed(line, punc) ==
    LET idx == Index(line, punc)
    IN idx # -1 /\ Len(Slice(line, idx + 2, Len(line))) > 0

lineFails(line, punc) ==
    LET idx == Index(line, punc)
    IN idx # -1 /\ Len(TrimSpace(Slice(line, idx + 2, Len(line)))) > 0

IsVentilated(in) ==
    IF in = <<>> THEN TRUE
    ELSE LET lines == Split(in, "\n")
         IN ~\E k \in 1..Len(lines) :
               \E punc \in {<<".", " ">>, <<"!", " ">>, <<"?", " ">>} : lineFails(lines[k], punc)

----------------------------------------------------------------------------
(* Inputs and configurations *)

RECURSIVE Flatten(_)
\* the string spelled by a sequence of tokens
Flatten(ts) == IF ts = <<>> THEN <<>> ELSE Head(ts) \o Flatten(Tail(ts))

\* the strings spelled by at most n tokens of T
Strings(T, n) == UNION {{Flatten(ts) : ts \in [1..k -> T]} : k \in 0..n}

NilAbbreviations == [isNil |-> TRUE, keys |-> {}]

\* abbreviation maps a caller passes: nil, empty, {"No."}, {"Mr."}
AbbreviationMaps ==
    { NilAbbreviations,
      [isNil |-> FALSE, keys |-> {}],
      [isNil |-> FALSE, keys |-> {<<"N", "o", ".">>}],
      [isNil |-> FALSE, keys |-> {<<"M", "r", ".">>}] }

\* the configurations over the given field values
Configs(breaks, lengths, spacings, respects, maps) ==
    [SentenceBreak : breaks, MaxLineLength : lengths, ParagraphSpacing : spacings,
     RespectMaxLineLength : respects, Abbreviations : maps]

MaxMarkupTokens == 5

MarkupTokens == { <<"a">>, <<".", " ">>, <<"\n">>, <<"{">>, <<"}">>, <<"#">>, fence }

MarkupInputs == Strings(MarkupTokens, MaxMarkupTokens)

MarkupConfigs == Configs(BOOLEAN, {0}, {"single"}, {FALSE}, {NilAbbreviations})

\* the width of the line-length wrapper in the configurations that use it
WrapWidth == 3

\* one configuration per reflow mode (sentence, width wrap, none) and spacing
ModeConfigs(spacings) ==
    {c \in Configs(BOOLEAN, {0, WrapWidth}, spacings, BOOLEAN, {NilAbbreviations}) :
        /\ c.SentenceBreak => (c.MaxLineLength = 0 /\ ~c.RespectMaxLineLength)
        /\ ~c.SentenceBreak => (c.RespectMaxLineLength <=> c.MaxLineLength > 0)}

MaxBlockTokens == 5

BlockTokens == { <<"a">>, <<".", " ">>, <<"\n">>, <<"#">>, fence, <<":">> }

BlockInputs == Strings(BlockTokens, MaxBlockTokens)

BlockConfigs == ModeConfigs({"none", "single", "blank-line"})

MaxScanTokens == 4

ScanTokens ==
    { <<"M", "r", ".">>, <<" ">>, <<"\t">>, <<"a">>, <<".">>, <<"{">>, <<"}">>, <<"!", "\"">> }

\* paragraphs both versions can hand to the scanner: not empty, and with no
\* whitespace at either end
ScanInputs == {p \in Strings(ScanTokens, MaxScanTokens) : p # <<>> /\ TrimSpace(p) = p}

ScanConfigs == Configs({TRUE}, {0}, {"single"}, {FALSE}, AbbreviationMaps)

MaxEllipsisTokens == 4

EllipsisTokens ==
    { <<".", ".", ".">>, <<".">>, <<" ">>, <<"a">>, <<"M", "r", ".">>, <<"{">>, <<"}">>,
      <<"!", "\"">> }

\* paragraphs with ellipses, with text before and after them
EllipsisInputs ==
    {p \in Strings(EllipsisTokens, MaxEllipsisTokens) : p # <<>> /\ TrimSpace(p) = p}

MaxWrapTokens == 6

WrapTokens == { <<"a">>, <<"b", "b">>, <<"c", "c", "c", "c">>, <<" ">>, <<"\n">> }

\* the paragraphs handed to the wrapper
WrapInputs == Strings(WrapTokens, MaxWrapTokens)

\* the configurations that route a paragraph to the wrapper, at two widths
WrapConfigs ==
    Configs({FALSE}, {WrapWidth, WrapWidth + 2}, {"single"}, {TRUE}, {NilAbbreviations})

MaxSpanWrapTokens == 5

SpanWrapTokens == { <<"a">>, <<"b", "b">>, <<" ">>, <<"\n">>, <<"{">>, <<"}">> }

\* texts with spans that hold spaces
SpanWrapInputs == Strings(SpanWrapTokens, MaxSpanWrapTokens)

MaxRouteTokens == 5

RouteTokens == { <<"a">>, <<"b", "b">>, <<" ">>, <<".">>, <<".", " ">> }

\* the paragraphs both versions can hand to ventilateParagraph
RouteInputs == {p \in Strings(RouteTokens, MaxRouteTokens) : p # <<>> /\ TrimSpace(p) = p}

\* every combination of SentenceBreak, RespectMaxLineLength and MaxLineLength
RouteConfigs == Configs(BOOLEAN, {0, WrapWidth}, {"single"}, BOOLEAN, {NilAbbreviations})

MaxDetectTokens == 5

DetectTokens ==
    { <<"a">>, <<".", " ">>, <<"?", " ">>, <<"!">>, <<" ">>, <<"\t">>, <<"\n">> }

\* the texts handed to IsVentilated
DetectInputs == Strings(DetectTokens, MaxDetectTokens)

\* IsVentilated takes no configuration
DetectConfigs == Configs({FALSE}, {0}, {"none"}, {FALSE}, {NilAbbreviations})

MaxJudgeTokens == 4

JudgeTokens ==
    { <<"a">>, <<".", " ">>, <<"M", "r", ".", " ">>, <<".", ".", ".">>, <<"\"">>, <<"\n">> }

\* texts of sentences, abbreviations, ellipses and quotes, on one line or several
JudgeInputs == Strings(JudgeTokens, MaxJudgeTokens)

\* sentence mode, with the built-in and with custom abbreviation sets
JudgeConfigs == Configs({TRUE}, {0}, {"single", "blank-line"}, {FALSE}, AbbreviationMaps)

MaxEdgeTokens == 1

\* the empty text and the shortest texts that are not empty
EdgeInputs == Strings({ <<"a">>, <<"\n">>, <<"{">> }, MaxEdgeTokens)

\* every combination of the Config fields, the zero value "" of ParagraphSpacing included
AllConfigs ==
    Configs(BOOLEAN, {0, WrapWidth}, {"", "none", "single", "blank-line"}, BOOLEAN,
            AbbreviationMaps)

----------------------------------------------------------------------------
(* The calls *)

InitWith(inputs, configs) ==
    /\ impl \in {"part_000", "advent.go"}
    /\ input \in inputs
    /\ cfg \in configs
    /\ pc = "start"
    /\ out = <<>>
    /\ err = FALSE
    /\ out2 = <<>>
    /\ err2 = FALSE
    /\ para = <<>>
    /\ scan = scanInit
    /\ branch = "none"
    /\ at = 0
    /\ ventilated = FALSE

\* the Ventilate of the version under test
Run(in, c) == IF impl = "part_000" THEN Ventilate(in, c) ELSE VentilateA(in, c)

\* a caller calls Ventilate(input, cfg)
CallVentilate ==
    /\ pc = "start"
    /\ LET r == Run(input, cfg)
       IN /\ out' = r.out
          /\ err' = r.err
    /\ pc' = "done"
    /\ UNCHANGED <<impl, input, cfg, out2, err2, scanVars, ventilated>>

\* the caller feeds a successful output back to Ventilate with the same cfg
CallAgain ==
    /\ pc = "done"
    /\ ~err
    /\ LET r == Run(out, cfg)
       IN /\ out2' = r.out
          /\ err2' = r.err
    /\ pc' = "again"
    /\ UNCHANGED <<impl, input, cfg, out, err, scanVars, ventilated>>

Next == CallVentilate \/ CallAgain

SpecMarkup == InitWith(MarkupInputs, MarkupConfigs) /\ [][Next]_vars

SpecBlocks == InitWith(BlockInputs, BlockConfigs) /\ [][Next]_vars

SpecSpanWrap == InitWith(SpanWrapInputs, WrapConfigs) /\ [][Next]_vars

SpecEdge == InitWith(EdgeInputs, AllConfigs) /\ [][Next]_vars

\* a caller calls IsVentilated(input)
CallIsVentilated ==
    /\ pc = "start"
    /\ ventilated' = IsVentilated(input)
    /\ pc' = "judged"
    /\ UNCHANGED <<impl, input, cfg, out, err, out2, err2, scanVars>>

NextDetect == CallIsVentilated

\* the caller hands a successful output of Ventilate to IsVentilated
JudgeOutput ==
    /\ pc = "done"
    /\ ~err
    /\ ventilated' = IsVentilated(out)
    /\ pc' = "judged"
    /\ UNCHANGED <<impl, input, cfg, out, err, out2, err2, scanVars>>

NextJudge == CallVentilate \/ JudgeOutput

SpecJudge == InitWith(JudgeInputs, JudgeConfigs) /\ [][NextJudge]_vars

SpecDetect == InitWith(DetectInputs, DetectConfigs) /\ [][NextDetect]_vars

----------------------------------------------------------------------------
(* The functions a paragraph is handed to *)

\* a paragraph p and a configuration reach ventilateParagraph
InitParagraph(paras, configs) ==
    /\ impl \in {"part_000", "advent.go"}
    /\ input = <<>>
    /\ cfg \in configs
    /\ pc = "para"
    /\ out = <<>>
    /\ err = FALSE
    /\ out2 = <<>>
    /\ err2 = FALSE
    /\ para \in paras
    /\ scan = scanInit
    /\ branch = "none"
    /\ at = 0
    /\ ventilated = FALSE

\* ventilateByLineLength(p, cfg.MaxLineLength) is called and returns
CallWrap ==
    /\ pc = "para"
    /\ ~cfg.SentenceBreak /\ cfg.RespectMaxLineLength /\ cfg.MaxLineLength > 0
    /\ LET r == ventilateByLineLength(para, cfg.MaxLineLength)
       IN /\ out' = r.out
          /\ err' = r.err
    /\ pc' = "wrapped"
    /\ UNCHANGED <<impl, input, cfg, out2, err2, scanVars, ventilated>>

NextWrap == CallWrap

\* ventilateParagraph(p, cfg) of the version under test is called and returns
CallParagraph ==
    /\ pc = "para"
    /\ LET r == IF impl = "part_000" THEN ventilateParagraph(para, cfg)
                ELSE ventilateParagraphA(para, cfg)
       IN /\ out' = r.out
          /\ err' = r.err
    /\ pc' = "routed"
    /\ UNCHANGED <<impl, input, cfg, out2, err2, scanVars, ventilated>>

NextRoute == CallParagraph

SpecRoute == InitParagraph(RouteInputs, RouteConfigs) /\ [][NextRoute]_vars

SpecWrap == InitParagraph(WrapInputs, WrapConfigs) /\ [][NextWrap]_vars

----------------------------------------------------------------------------
(* The sentence scanner, one loop iteration at a time *)

\* ventilateBySentence(p, cfg) is entered with a paragraph and a configuration
InitScan ==
    /\ impl \in {"part_000", "advent.go"}
    /\ input = <<>>
    /\ cfg \in ScanConfigs
    /\ pc = "scan"
    /\ out = <<>>
    /\ err = FALSE
    /\ out2 = <<>>
    /\ err2 = FALSE
    /\ para \in ScanInputs
    /\ scan = scanInit
    /\ branch = "none"
    /\ at = 0
    /\ ventilated = FALSE

\* ventilateBySentence(p, cfg) is entered with a paragraph of paras
InitScanWith(paras, configs) ==
    /\ impl \in {"part_000", "advent.go"}
    /\ input = <<>>
    /\ cfg \in configs
    /\ pc = "scan"
    /\ out = <<>>
    /\ err = FALSE
    /\ out2 = <<>>
    /\ err2 = FALSE
    /\ para \in paras
    /\ scan = scanInit
    /\ branch = "none"
    /\ at = 0
    /\ ventilated = FALSE

\* the branch the loop body of the version under test takes at the cursor
BranchNow ==
    IF impl = "part_000" THEN scanBranch(para, effectiveAbbreviations(cfg), scan)
    ELSE branchAt(para, effectiveAbbreviations(cfg), scan)

\* the loop condition holds and the body is entered
InLoop == pc = "scan" /\ scan.i < Len(para)

\* mutant: the abbreviation branch forgets to move the cursor
IterateStuck(b) ==
    /\ scan' = [(IF b = "abbreviation" THEN scan ELSE scanStep(para, scan, b)) EXCEPT
                    !.iterations = IF scan.iterations <= Len(para)
                                   THEN scan.iterations + 1 ELSE scan.iterations]
    /\ branch' = b
    /\ at' = scan.i
    /\ pc' = IF b = "unterminated" THEN "failed" ELSE "scan"
    /\ err' = (b = "unterminated")
    /\ UNCHANGED <<impl, input, cfg, out, out2, err2, para, ventilated>>

\* what one iteration that takes branch b does to the scanner's state
Iterate(b) ==
    /\ scan' = [scanStep(para, scan, b) EXCEPT
                    !.iterations = IF scan.iterations <= Len(para)
                                   THEN scan.iterations + 1 ELSE scan.iterations]
    /\ branch' = b
    /\ at' = scan.i
    /\ pc' = IF b = "unterminated" THEN "failed" ELSE "scan"
    /\ err' = (b = "unterminated")
    /\ UNCHANGED <<impl, input, cfg, out, out2, err2, para, ventilated>>

ScanEllipsis ==
    /\ InLoop
    /\ BranchNow = "ellipsis"
    /\ Iterate("ellipsis")

ScanUnterminated ==
    /\ InLoop
    /\ BranchNow = "unterminated"
    /\ Iterate("unterminated")

ScanSpanBreak ==
    /\ InLoop
    /\ BranchNow = "spanBreak"
    /\ Iterate("spanBreak")

ScanSpanSkip ==
    /\ InLoop
    /\ BranchNow = "spanSkip"
    /\ Iterate("spanSkip")

ScanAbbreviation ==
    /\ InLoop
    /\ BranchNow = "abbreviation"
    /\ Iterate("abbreviation")

ScanQuote ==
    /\ InLoop
    /\ BranchNow = "quote"
    /\ Iterate("quote")

ScanBoundary ==
    /\ InLoop
    /\ BranchNow = "boundary"
    /\ Iterate("boundary")

ScanAdvance ==
    /\ InLoop
    /\ BranchNow = "advance"
    /\ Iterate("advance")

\* the loop has ended: flush, trim and return
ScanReturn ==
    /\ pc = "scan"
    /\ scan.i >= Len(para)
    /\ out' = scanFinish(para, scan).out
    /\ pc' = "scanned"
    /\ UNCHANGED <<impl, input, cfg, err, out2, err2, scanVars, ventilated>>

NextScan ==
    \/ ScanEllipsis
    \/ ScanUnterminated
    \/ ScanSpanBreak
    \/ ScanSpanSkip
    \/ ScanAbbreviation
    \/ ScanQuote
    \/ ScanBoundary
    \/ ScanAdvance
    \/ ScanReturn

SpecScan == InitScan /\ [][NextScan]_vars

SpecEllipsis == InitScanWith(EllipsisInputs, ScanConfigs) /\ [][NextScan]_vars

\* the scanner is sequential code: while a step is possible, one is taken
SpecScanFair ==
    InitScanWith(EllipsisInputs, ScanConfigs) /\ [][NextScan]_vars /\ WF_vars(NextScan)


----------------------------------------------------------------------------
(* Notions the claims are stated in *)

Count(s, c, k) == Cardinality({i \in 1..k : s[i] = c})

\* every "}" closes an earlier "{" and every "{" is closed
Balanced(s) ==
    /\ \A k \in 0..Len(s) : Count(s, "{", k) >= Count(s, "}", k)
    /\ Count(s, "{", Len(s)) = Count(s, "}", Len(s))

RECURSIVE OpenLeft(_, _)
\* how many "{" of s are still open at its end when a "}" with nothing open is ignored
OpenLeft(s, level) ==
    IF s = <<>> THEN level
    ELSE OpenLeft(Tail(s), IF Head(s) = "{" THEN level + 1
                           ELSE IF Head(s) = "}" /\ level > 0 THEN level - 1
                           ELSE level)

\* some "{" of p has no matching "}" in p
HasUnmatchedOpen(p) == OpenLeft(p, 0) > 0

\* the paragraphs the version under test hands to ventilateParagraph
ParagraphsOf(in) == IF impl = "part_000" THEN paragraphs(in) ELSE paragraphsA(in)

\* the 1-based index in s of its k-th non-space character
NonSpaceIndex(s, k) ==
    CHOOSE i \in 1..Len(s) :
        ~IsSpace(s[i]) /\ Cardinality({j \in 1..i : ~IsSpace(s[j])}) = k

NonSpaceCount(s) == Cardinality({j \in 1..Len(s) : ~IsSpace(s[j])})

\* the newlines of s between its k-th and its (k+1)-th non-space character
GapNewlines(s, k) ==
    Cardinality({i \in NonSpaceIndex(s, k)..NonSpaceIndex(s, k + 1) : s[i] = "\n"})

\* the gaps of in that lie strictly inside a span: after the k-th non-space character
\* more "{" than "}" have been read
InsideSpan(in, k) ==
    LET i == NonSpaceIndex(in, k)
    IN Count(in, "{", i) > Count(in, "}", i)

\* o has, inside every span of in, no more newlines than in has at the same place
NoNewlineAddedInSpans(in, o) ==
    NonSpaceCount(o) = NonSpaceCount(in) =>
        \A k \in 1..(NonSpaceCount(in) - 1) :
            InsideSpan(in, k) => GapNewlines(o, k) <= GapNewlines(in, k)

\* the lines of a text
LinesOf(s) == Split(s, "\n")

\* the blocks of a text: the maximal runs <<first, last>> of lines that are not blank
LineBlocks(lines) ==
    {r \in (1..Len(lines)) \X (1..Len(lines)) :
        /\ r[1] <= r[2]
        /\ \A k \in r[1]..r[2] : TrimSpace(lines[k]) # <<>>
        /\ r[1] = 1 \/ TrimSpace(lines[r[1] - 1]) = <<>>
        /\ r[2] = Len(lines) \/ TrimSpace(lines[r[2] + 1]) = <<>>}

\* a trimmed line that starts a block which is not prose
StartsNonProse(t) ==
    \/ HasPrefix(t, <<"#">>)
    \/ HasPrefix(t, <<">">>)
    \/ HasPrefix(t, <<"-", " ">>)
    \/ HasPrefix(t, <<"*", " ">>)
    \/ HasPrefix(t, <<"-", "-", "-">>)
    \/ HasPrefix(t, fence)
    \/ \E n \in 1..Len(t) :
          /\ \A k \in 1..n : IsDigit(t[k])
          /\ HasPrefix(SubSeq(t, n + 1, Len(t)), <<".", " ">>)

\* the lines b are consecutive lines of ls
HasRun(ls, b) ==
    \E k \in 0..(Len(ls) - Len(b)) : SubSeq(ls, k + 1, k + Len(b)) = b

\* the last line of the fenced block opened by line 1: the next line that starts
\* with a fence or, when the fence is never closed, the last line that is not blank
FenceLast(lines) ==
    LET close == {k \in 2..Len(lines) : HasPrefix(TrimSpace(lines[k]), fence)}
        text == {k \in 1..Len(lines) : TrimSpace(lines[k]) # <<>>}
    IN IF close # {} THEN SetMin(close) ELSE SetMax(text)

\* the outputs of the blocks of the version under test, before they are joined
BlockOutputs(in, c) ==
    LET done == IF impl = "part_000" THEN processedBlocks(in, c) ELSE processedBlocksA(in, c)
    IN [k \in 1..Len(done) |-> done[k].out]

\* one newline for "none" and "single", two for "blank-line"
SpacingSeparator(c) ==
    IF c.ParagraphSpacing = "blank-line" THEN <<"\n", "\n">> ELSE <<"\n">>

\* the token that ends at index i of p: what follows the last whitespace before i
TokenAt(p, i) ==
    LET ws == {k \in 0..(i - 1) : IsSpace(At(p, k))}
    IN Slice(p, IF ws = {} THEN 0 ELSE SetMax(ws) + 1, i + 1)

\* the built-in abbreviations when Abbreviations is nil, else the custom ones alone
AbbreviationsInForce(c) ==
    IF c.Abbreviations.isNil
    THEN { <<"M", "r", ".">>, <<"M", "r", "s", ".">>, <<"M", "s", ".">>,
           <<"D", "r", ".">>, <<"P", "r", "o", "f", ".">>, <<"e", ".", "g", ".">>,
           <<"i", ".", "e", ".">>, <<"e", "t", "c", ".">>, <<"S", "t", ".">> }
    ELSE c.Abbreviations.keys

\* a line of prose: not blank, and its trimmed form starts no non-prose block
IsProseLine(line) == TrimSpace(line) # <<>> /\ ~StartsNonProse(TrimSpace(line))

\* a non-prose line of a kind that is classified one line at a time (not a fence)
IsSingleNonProseLine(line) ==
    StartsNonProse(TrimSpace(line)) /\ ~HasPrefix(TrimSpace(line), fence)

\* some line of s opens or closes a fenced block
HasFence(s) == \E k \in 1..Len(LinesOf(s)) : HasPrefix(TrimSpace(LinesOf(s)[k]), fence)

\* line is a line of its own in o, after the separator of configuration c
OwnBlockIn(o, line, c) ==
    \E m \in 2..Len(LinesOf(o)) :
        /\ LinesOf(o)[m] = line
        /\ IF c.ParagraphSpacing = "blank-line"
           THEN m > 2 /\ LinesOf(o)[m - 1] = <<>> /\ LinesOf(o)[m - 2] # <<>>
           ELSE LinesOf(o)[m - 1] # <<>>

\* sentence punctuation and a space at index i of line, with text after them
PunctuationBeforeText(line, i) ==
    /\ line[i] \in {".", "!", "?"}
    /\ i < Len(line) /\ line[i + 1] = " "
    /\ \E j \in (i + 2)..Len(line) : ~IsSpace(line[j])

\* sentence punctuation and a space at index i of line, whatever follows
PunctuationAndSpace(line, i) ==
    line[i] \in {".", "!", "?"} /\ i < Len(line) /\ line[i + 1] = " "

\* the end of the maximal run of closing wrappers of p that starts at index j
WrapperRunEnd(p, j) ==
    CHOOSE e \in j..Len(p) :
        /\ \A k \in j..(e - 1) : At(p, k) \in {"*", "}", "_", ")", "]", "\"", "'"}
        /\ e < Len(p) => At(p, e) \notin {"*", "}", "_", ")", "]", "\"", "'"}

\* the end of the maximal run of whitespace of p that starts at index j
SpaceRunEnd(p, j) ==
    CHOOSE e \in j..Len(p) :
        /\ \A k \in j..(e - 1) : IsSpace(At(p, k))
        /\ e < Len(p) => ~IsSpace(At(p, e))

\* whitespace or the end of p is at index j
SpaceOrEndAt(p, j) == j >= Len(p) \/ IsSpace(At(p, j))

\* the "{" minus the "}" of p at indices a..b
Depth(p, a, b) ==
    Cardinality({k \in a..b : At(p, k) = "{"}) - Cardinality({k \in a..b : At(p, k) = "}"})

\* the indices at which the span opened at index i of p closes (one index, or none)
ClosesAt(p, i) ==
    {e \in (i + 1)..(Len(p) - 1) :
        Depth(p, i, e) = 0 /\ \A k \in i..(e - 1) : Depth(p, i, k) > 0}

\* the "." at index i of p is the last dot of a run of exactly three dots
EndsEllipsis(p, i) ==
    /\ i >= 2
    /\ At(p, i) = "." /\ At(p, i - 1) = "." /\ At(p, i - 2) = "."
    /\ i >= 3 => At(p, i - 3) # "."
    /\ i + 1 < Len(p) => At(p, i + 1) # "."

\* the lowercase letters
Lowercase ==
    {"a", "b", "c", "d", "e", "f", "g", "h", "i", "j", "k", "l", "m",
     "n", "o", "p", "q", "r", "s", "t", "u", "v", "w", "x", "y", "z"}

\* a "!" or "?" at index q of p, a double quote right after it, and a lowercase
\* letter as the first character after the whitespace that follows the quote
QuoteThenLower(p, q) ==
    /\ q + 1 < Len(p)
    /\ At(p, q) \in {"!", "?"}
    /\ At(p, q + 1) = "\""
    /\ SpaceRunEnd(p, q + 2) < Len(p)
    /\ At(p, SpaceRunEnd(p, q + 2)) \in Lowercase

\* s is one block of prose: every line is a prose line
SingleProseBlock(s) ==
    s # <<>> /\ \A m \in 1..Len(LinesOf(s)) : IsProseLine(LinesOf(s)[m])

\* the trimmed text of line ends in ":"
EndsInColon(line) == HasSuffix(TrimSpace(line), <<":">>)

RECURSIVE ColonJoin(_)
\* lines joined: a newline after a line that ends in ":", one space after any other
ColonJoin(lines) ==
    IF Len(lines) <= 1 THEN Flatten(lines)
    ELSE Head(lines) \o (IF EndsInColon(Head(lines)) THEN <<"\n">> ELSE <<" ">>)
         \o ColonJoin(Tail(lines))

\* o has a newline where the m-th line of lines ends
BreakKeptAfter(o, lines, m) ==
    LET k == NonSpaceCount(Join(SubSeq(lines, 1, m), <<"\n">>))
    IN /\ NonSpaceCount(o) = NonSpaceCount(Join(lines, <<"\n">>))
       /\ GapNewlines(o, k) >= 1

\* the sentence scanner of the version under test
BySentence(p, c) ==
    IF impl = "part_000" THEN ventilateBySentence(p, c) ELSE ventilateBySentenceA(p, c)

\* c with the width wrapper switched off
WithoutWidth(c) == [c EXCEPT !.MaxLineLength = 0, !.RespectMaxLineLength = FALSE]

\* the scanner has just run an iteration with its cursor on sentence punctuation
\* that it examined (outside a span and outside an ellipsis)
AtPunctuation ==
    /\ branch \in {"abbreviation", "quote", "boundary", "advance"}
    /\ At(para, at) \in {".", "!", "?"}

----------------------------------------------------------------------------
(* Claims *)

\* C1: an input whose braces are not balanced gets the error and the empty output,
\* under every configuration.
C1_UnbalancedIsError ==
    (pc # "start" /\ ~Balanced(input)) => (err /\ out = <<>>)

C1_Witness ==
    pc = "done" /\ ~Balanced(input) /\ ~cfg.SentenceBreak /\ err /\ out = <<>>

C3_NoBreakInsideSpan ==
    (pc # "start" /\ cfg.SentenceBreak /\ ~err) => NoNewlineAddedInSpans(input, out)

\* C4 as stated: under every configuration, every block of the input whose first
\* line, trimmed, starts a non-prose block is found byte-identical in the output.
C4_NonProseBlockVerbatim ==
    (pc # "start" /\ ~err) =>
        \A r \in LineBlocks(LinesOf(input)) :
            StartsNonProse(TrimSpace(LinesOf(input)[r[1]])) =>
                HasRun(LinesOf(out), SubSeq(LinesOf(input), r[1], r[2]))

\* C5 as stated: when the first line opens a fenced block, every line up to and
\* including the closing fence (or to the end of the text) passes through verbatim,
\* blank lines included.
C5_FenceVerbatim ==
    (pc # "start" /\ ~err /\ input # <<>>
        /\ HasPrefix(TrimSpace(LinesOf(input)[1]), fence)) =>
        LET e == FenceLast(LinesOf(input))
        IN /\ Len(LinesOf(out)) >= e
           /\ SubSeq(LinesOf(out), 1, e) = SubSeq(LinesOf(input), 1, e)

\* C6 as stated: Ventilate applied to a successful output of Ventilate, under the
\* same configuration, succeeds and returns that output unchanged.
C6_Idempotent ==
    pc = "again" => (~err2 /\ out2 = out)

\* C7 as stated: the output is the blocks' outputs joined by one newline under
\* "none" and "single" and by two newlines under "blank-line" (a trailing newline
\* of the input aside).
C7_SeparatorBySpacing ==
    (pc # "start" /\ ~err /\ input # <<>>) =>
        LET joined == Join(BlockOutputs(input, cfg), SpacingSeparator(cfg))
        IN out \in {joined, joined \o <<"\n">>}

\* C8 as stated: a successful output of a non-empty input ends with exactly one
\* newline when the input ends with a newline, and with none when it does not.
C8_TrailingNewline ==
    (pc # "start" /\ ~err /\ input # <<>>) =>
        IF HasSuffix(input, <<"\n">>)
        THEN HasSuffix(out, <<"\n">>) /\ ~HasSuffix(out, <<"\n", "\n">>)
        ELSE ~HasSuffix(out, <<"\n">>)

\* C9 as stated: the scanner writes no newline after a "." whose token, taken from
\* the last whitespace character before it, is an abbreviation in force.
C9_AbbreviationNeverBreaks ==
    (AtPunctuation /\ At(para, at) = "."
        /\ TokenAt(para, at) \in AbbreviationsInForce(cfg)) => branch # "boundary"

\* C10: the scanner skips a punctuation mark as an abbreviation exactly when its
\* word is in the built-in set and Abbreviations is nil, or in Abbreviations and
\* Abbreviations is not nil: a custom set replaces the built-in one entirely.
C10_CustomSetReplaces ==
    AtPunctuation =>
        (branch = "abbreviation" <=> wordAt(para, at) \in AbbreviationsInForce(cfg))

\* "Mr." under the custom set {"No."} is taken as a sentence boundary
C10_Witness ==
    /\ branch = "boundary"
    /\ wordAt(para, at) = <<"M", "r", ".">>
    /\ ~cfg.Abbreviations.isNil
    /\ cfg.Abbreviations.keys = { <<"N", "o", ".">> }
    /\ at + 1 \in scan.breaks

\* C11: the wrapper's output has the words of its input in order, each line is its
\* words separated by one space, a line of several words is no longer than maxLen,
\* and a line ends only where the next word would not have fitted on it.
C11_GreedyWrap ==
    pc = "wrapped" =>
        LET words == Fields(para)
            maxLen == cfg.MaxLineLength
            lines == LinesOf(out)
        IN /\ ~err
           /\ Fields(out) = words
           /\ words = <<>> => out = <<>>
           /\ words # <<>> =>
                /\ \A k \in 1..Len(lines) :
                      /\ Fields(lines[k]) # <<>>
                      /\ lines[k] = Join(Fields(lines[k]), <<" ">>)
                      /\ Len(Fields(lines[k])) > 1 => Len(lines[k]) <= maxLen
                /\ \A k \in 1..(Len(lines) - 1) :
                      Len(lines[k]) + 1 + Len(Fields(lines[k + 1])[1]) > maxLen

\* a line filled exactly to maxLen, a line break, and an over-long word on its own
C11_Witness ==
    /\ pc = "wrapped"
    /\ \E k \in 1..Len(LinesOf(out)) :
          Len(Fields(LinesOf(out)[k])) > 1 /\ Len(LinesOf(out)[k]) = cfg.MaxLineLength
    /\ \E k \in 1..Len(LinesOf(out)) : Len(LinesOf(out)[k]) > cfg.MaxLineLength
    /\ Len(LinesOf(out)) > 1

\* C12 as stated: with SentenceBreak false, RespectMaxLineLength true and
\* MaxLineLength > 0, a successful Ventilate adds no newline strictly inside a span
\* of the input.
C12_WrapKeepsSpans ==
    (pc # "start" /\ ~err
        /\ ~cfg.SentenceBreak /\ cfg.RespectMaxLineLength /\ cfg.MaxLineLength > 0) =>
        NoNewlineAddedInSpans(input, out)

\* C13: a paragraph goes to the sentence scanner when SentenceBreak is true, and
\* MaxLineLength and RespectMaxLineLength then change nothing; else to the width
\* wrapper exactly when RespectMaxLineLength is true and MaxLineLength > 0; else it
\* is returned unchanged.
C13_Routing ==
    pc = "routed" =>
        IF cfg.SentenceBreak
        THEN [out |-> out, err |-> err] = BySentence(para, WithoutWidth(cfg))
        ELSE IF cfg.RespectMaxLineLength /\ cfg.MaxLineLength > 0
        THEN ~err /\ out = ventilateByLineLength(para, cfg.MaxLineLength).out
        ELSE ~err /\ out = para

\* SentenceBreak with the wrapper switched on: a sentence longer than MaxLineLength
\* stays on its line, and the paragraph is broken at its sentence end
C13_Witness ==
    /\ pc = "routed"
    /\ cfg.SentenceBreak /\ cfg.RespectMaxLineLength /\ cfg.MaxLineLength > 0
    /\ Len(LinesOf(out)) > 1
    /\ Len(Fields(LinesOf(out)[1])) > 1
    /\ Len(LinesOf(out)[1]) > cfg.MaxLineLength

\* C14 as stated: in a text without fences, a non-prose line that directly follows
\* a prose line is a line of its own in the output, verbatim, after the configured
\* separator.
C14_NonProseLineAlone ==
    (pc # "start" /\ ~err /\ ~HasFence(input)) =>
        \A k \in 1..(Len(LinesOf(input)) - 1) :
            (IsProseLine(LinesOf(input)[k]) /\ IsSingleNonProseLine(LinesOf(input)[k + 1])) =>
                OwnBlockIn(out, LinesOf(input)[k + 1], cfg)

\* C15: IsVentilated returns false exactly when some line holds ". ", "! " or "? "
\* (any occurrence, not only the first) with a non-whitespace character after it on
\* that line.
C15_IsVentilatedExactly ==
    pc = "judged" =>
        (ventilated <=>
            ~\E k \in 1..Len(LinesOf(input)) :
                \E i \in 1..Len(LinesOf(input)[k]) :
                    PunctuationBeforeText(LinesOf(input)[k], i))

\* a line judged not ventilated on an occurrence that is not its first: the first
\* occurrence's remainder holds the later one
C15_Witness ==
    /\ pc = "judged"
    /\ ~ventilated
    /\ \E k \in 1..Len(LinesOf(input)) :
          \E i, j \in 1..Len(LinesOf(input)[k]) :
              /\ i < j
              /\ LinesOf(input)[k][i] = LinesOf(input)[k][j]
              /\ PunctuationAndSpace(LinesOf(input)[k], i)
              /\ PunctuationBeforeText(LinesOf(input)[k], j)

\* C16: for the empty input Ventilate returns the empty string and no error, under
\* every configuration.
C16_EmptyInput ==
    (pc # "start" /\ input = <<>>) => (out = <<>> /\ ~err)

C16_Witness ==
    /\ pc = "done"
    /\ input = <<>>
    /\ cfg.SentenceBreak /\ cfg.RespectMaxLineLength /\ cfg.MaxLineLength > 0
    /\ cfg.ParagraphSpacing = "blank-line"
    /\ out = <<>> /\ ~err

C19_EllipsisNeverBreaks ==
    ~(branch = "boundary" /\ EndsEllipsis(para, at) /\ scan.i < Len(para))

\* C20: no newline is ever written at a "!" or "?" or at the double quote right
\* after it when a lowercase letter is the first character after the quote and its
\* whitespace; the scanner then moves one character on.  When no lowercase letter
\* follows, the mark is handled by wrapper absorption and boundary confirmation.
C20_QuoteGuard ==
    /\ \A q \in 0..(Len(para) - 1) :
          QuoteThenLower(para, q) => (q + 1) \notin scan.breaks /\ (q + 2) \notin scan.breaks
    /\ (AtPunctuation /\ branch # "abbreviation"
           /\ At(para, at) \in {"!", "?"}
           /\ at + 1 < Len(para) /\ At(para, at + 1) = "\"") =>
          IF QuoteThenLower(para, at)
          THEN branch = "quote" /\ scan.i = at + 1
          ELSE branch = (IF SpaceOrEndAt(para, WrapperRunEnd(para, at + 1))
                         THEN "boundary" ELSE "advance")

\* the guard has just fired on a quote followed by a space and a lowercase letter
C20_Witness ==
    /\ branch = "quote"
    /\ QuoteThenLower(para, at)
    /\ IsSpace(At(para, at + 2))
    /\ scan.i = at + 1
    /\ scan.breaks = {}

\* C21 as stated: in a block of prose the line break after a line ending in ":" is
\* kept and every other line break becomes one space; the kept newline is in the
\* output under SentenceBreak and under no reflow mode.
C21_ColonKeepsBreak ==
    (pc # "start" /\ ~err /\ SingleProseBlock(input)
        /\ (cfg.SentenceBreak \/ ~(cfg.RespectMaxLineLength /\ cfg.MaxLineLength > 0))) =>
        /\ ~cfg.SentenceBreak => out = ColonJoin(LinesOf(input))
        /\ \A m \in 1..(Len(LinesOf(input)) - 1) :
              EndsInColon(LinesOf(input)[m]) => BreakKeptAfter(out, LinesOf(input), m)

\* every line of s that is not blank is a prose line
OnlyProseBlocks(s) ==
    \A m \in 1..Len(LinesOf(s)) :
        TrimSpace(LinesOf(s)[m]) = <<>> \/ IsProseLine(LinesOf(s)[m])

\* C22 as stated: for an input made only of prose blocks on which Ventilate with
\* SentenceBreak succeeds, IsVentilated is true of the output.
C22_DetectorAcceptsOutput ==
    (pc = "judged" /\ cfg.SentenceBreak /\ OnlyProseBlocks(input)) => ventilated

\* the whitespace characters: space, tab, newline and carriage return
Whitespace == {" ", "\t", "\n", "\r"}

RECURSIVE Squeeze(_)
\* s with every whitespace character deleted
Squeeze(s) ==
    IF s = <<>> THEN <<>>
    ELSE (IF Head(s) \in Whitespace THEN <<>> ELSE <<Head(s)>>) \o Squeeze(Tail(s))

\* C23 as stated: whenever Ventilate succeeds, under every configuration, the output
\* with all whitespace deleted is the input with all whitespace deleted.
C23_OnlyWhitespaceChanges ==
    (pc # "start" /\ ~err) => Squeeze(out) = Squeeze(input)

\* a text of several sentences was reflowed in sentence mode and came out changed
C23_Witness ==
    /\ pc = "done"
    /\ ~err
    /\ cfg.SentenceBreak
    /\ out # input
    /\ Len(Squeeze(input)) >= 3

\* what the scanner returns when its loop has ended: the text written at the
\* boundaries followed by p[lastBreak:], or, when nothing is left to flush, the text
\* written at the boundaries without its last newline
Flushed ==
    IF scan.lastBreak < Len(para)
    THEN out = scan.result \o Slice(para, scan.lastBreak, Len(para))
    ELSE out \o <<"\n">> = scan.result

\* C24 as stated: every iteration of the scanner's loop that does not fail moves the
\* cursor i strictly forward, 0 <= lastBreak <= i <= len(p) always holds, the loop
\* body runs at most len(p) times, the scanner ends, and what it returns ends with
\* exactly p[lastBreak:].
C24_ScannerTerminates ==
    /\ [][(pc = "scan" /\ pc' # "failed") => (pc' = "scanned" \/ scan'.i > scan.i)]_vars
    /\ [](0 <= scan.lastBreak /\ scan.lastBreak <= scan.i /\ scan.i <= Len(para))
    /\ [](scan.iterations <= Len(para))
    /\ [](pc = "scanned" => Flushed)
    /\ <>(pc \in {"scanned", "failed"})

\* the scanner has ended after a boundary, in fewer iterations than the paragraph
\* has characters, with text left to flush
C24_Witness ==
    /\ pc = "scanned"
    /\ scan.breaks # {}
    /\ 0 < scan.lastBreak
    /\ scan.lastBreak < Len(para)
    /\ scan.iterations >= 2
    /\ scan.iterations < Len(para)

====
